---- MODULE Spec2Model ----
(***************************************************************************)
(* The DOCX and PDF converters of markitdown: accepts, convert, the DOCX   *)
(* soft-page-break marker walk and the PDF page-by-page extraction with    *)
(* its whole-document fallback.                                            *)
(*                                                                         *)
(* Text is a sequence of character codes (ASCII), so that find, slicing,   *)
(* strip, lower and startswith are computed character by character.        *)
(* Python's optional values are sequences of length 0 (None) or 1.         *)
(***************************************************************************)
EXTENDS Integers, Sequences, FiniteSets, TLC

(* ------------------------------ bounds --------------------------------- *)

\* longest rendered markdown of the DOCX inputs
MaxLen == 3
\* most paragraphs of a DOCX document
MaxParas == 2
\* most physical pages of a PDF document
MaxPages == 2
\* longest text of one PDF page
MaxPageLen == 1
\* last position of the caller's stream
StreamLen == 1
\* most rendered page breaks of one paragraph
MaxBreaks == 1
\* longest short paragraph of the two-break scenario
MaxParaLen == 1

(* ----------------------------- Python values --------------------------- *)

None == <<>>
Some(x) == <<x>>

PyFalse == [t |-> "bool", v |-> 0]
PyTrue == [t |-> "bool", v |-> 1]
PyNone == [t |-> "NoneType", v |-> 0]
PyInt(i) == [t |-> "int", v |-> i]

\* only the value True counts
TruthyIsTrue(x) == x.t = "bool" /\ x.v = 1

\* bool(x) of Python for the values above
Truthy(x) == IF x.t = "NoneType" THEN FALSE ELSE x.v # 0

\* kwargs.get(key, default)
KwGet(kw, key, default) == IF key \in DOMAIN kw THEN kw[key] ELSE default

(* -------------------------------- text --------------------------------- *)

Min(a, b) == IF a < b THEN a ELSE b

\* s[i:j] for 0 <= i, 0 <= j
Slice(s, i, j) == SubSeq(s, i + 1, Min(j, Len(s)))

\* s[i:]
SliceFrom(s, i) == SubSeq(s, i + 1, Len(s))

\* s[:k]
Prefix(s, k) == SubSeq(s, 1, Min(k, Len(s)))

\* s.startswith(p)
StartsWith(s, p) == Len(p) <= Len(s) /\ SubSeq(s, 1, Len(p)) = p

\* s.find(sub, start): the lowest index at or after start where sub occurs, -1 if none
Find(s, sub, start) ==
  LET hits == {i \in start..(Len(s) - Len(sub)) : SubSeq(s, i + 1, i + Len(sub)) = sub}
  IN IF hits = {} THEN -1 ELSE CHOOSE i \in hits : \A j \in hits : i <= j

\* c.lower() of one character
LowerChar(c) == IF c >= 65 /\ c <= 90 THEN c + 32 ELSE c

\* s.lower()
Lower(s) == [i \in 1..Len(s) |-> LowerChar(s[i])]

\* the characters str.strip() removes
IsSpace(c) == c \in {9, 10, 11, 12, 13, 28, 29, 30, 31, 32}

\* s.strip()
Strip(s) ==
  LET keep == {i \in 1..Len(s) : ~IsSpace(s[i])}
  IN IF keep = {} THEN <<>>
     ELSE SubSeq(s, CHOOSE i \in keep : \A j \in keep : i <= j,
                    CHOOSE i \in keep : \A j \in keep : i >= j)

RECURSIVE Concat(_)
\* "".join(parts)
Concat(parts) == IF parts = <<>> THEN <<>> ELSE Head(parts) \o Concat(Tail(parts))

RECURSIVE Join(_, _)
\* sep.join(parts)
Join(sep, parts) ==
  IF parts = <<>> THEN <<>>
  ELSE IF Len(parts) = 1 THEN parts[1]
  ELSE parts[1] \o sep \o Join(sep, Tail(parts))

\* all sequences over S of length 0..n
SeqUpTo(S, n) == UNION {[1..k -> S] : k \in 0..n}

\* n copies of the character c
Rep(c, n) == [i \in 1..n |-> c]

(* --------------------------- program constants ------------------------- *)

DOCX_MIME_TYPE_PREFIXES ==
  << <<97, 112, 112, 108, 105, 99, 97, 116, 105, 111, 110, 47, 118, 110, 100, 46,
       111, 112, 101, 110, 120, 109, 108, 102, 111, 114, 109, 97, 116, 115, 45,
       111, 102, 102, 105, 99, 101, 100, 111, 99, 117, 109, 101, 110, 116, 46,
       119, 111, 114, 100, 112, 114, 111, 99, 101, 115, 115, 105, 110, 103, 109,
       108, 46, 100, 111, 99, 117, 109, 101, 110, 116>> >>

\* ".docx"
DOCX_FILE_EXTENSIONS == << <<46, 100, 111, 99, 120>> >>

\* "application/pdf", "application/x-pdf"
PDF_MIME_TYPE_PREFIXES ==
  << <<97, 112, 112, 108, 105, 99, 97, 116, 105, 111, 110, 47, 112, 100, 102>>,
     <<97, 112, 112, 108, 105, 99, 97, 116, 105, 111, 110, 47, 120, 45, 112, 100, 102>> >>

\* ".pdf"
PDF_FILE_EXTENSIONS == << <<46, 112, 100, 102>> >>

ACCEPTED_MIME_TYPE_PREFIXES(c) ==
  IF c = "DocxConverter" THEN DOCX_MIME_TYPE_PREFIXES ELSE PDF_MIME_TYPE_PREFIXES

ACCEPTED_FILE_EXTENSIONS(c) ==
  IF c = "DocxConverter" THEN DOCX_FILE_EXTENSIONS ELSE PDF_FILE_EXTENSIONS

\* "<No text>"
no_text_delimeter == <<60, 78, 111, 32, 116, 101, 120, 116, 62>>

number_of_chracters_delimeter == 20

\* "\n\n"
BlankLine == <<10, 10>>

Converters == {"DocxConverter", "PdfConverter"}

(* -------------------------------- accepts ------------------------------ *)

\* (x or "")
OrEmpty(opt) == IF opt = None THEN <<>> ELSE opt[1]

\* the match predicate of both converters
accepts(c, stream_info) ==
  LET mimetype == Lower(OrEmpty(stream_info.mimetype))
      extension == Lower(OrEmpty(stream_info.extension))
      exts == ACCEPTED_FILE_EXTENSIONS(c)
      prefixes == ACCEPTED_MIME_TYPE_PREFIXES(c)
  IN IF \E i \in 1..Len(exts) : extension = exts[i] THEN TRUE
     ELSE \E i \in 1..Len(prefixes) : StartsWith(mimetype, prefixes[i])

(* ----------------------- the dependency check -------------------------- *)

\* a converter that no longer checks its dependency
DependencyMissingNever(exc_info) == FALSE

\* _dependency_exc_info is not None
DependencyMissing(exc_info) == exc_info # None

\* the exception convert raises for a missing dependency
MissingDependencyException(c, exc_info) ==
  [type |-> "MissingDependencyException",
   converter |-> c,
   extension |-> IF c = "DocxConverter" THEN ".docx" ELSE ".pdf",
   feature |-> IF c = "DocxConverter" THEN "docx" ELSE "pdf",
   cause |-> exc_info]

(* ------------------------- DOCX page segmentation ---------------------- *)

PageInfo(n, text) == [page_number |-> n, content |-> text]

\* the marker of one rendered page break: y is its following paragraph
\* fragment, None or Some(text)
following_text_of(y) ==
  Prefix(IF y # None THEN y[1] ELSE no_text_delimeter, number_of_chracters_delimeter)

\* the markers of the breaks of one paragraph, in order
ParagraphBreaks(x) == [i \in 1..Len(x) |-> following_text_of(x[i])]

RECURSIVE find_paragraph_soft_page_breaks(_)
\* paragraphs: for each paragraph, the sequence of its rendered page breaks
find_paragraph_soft_page_breaks(paragraphs) ==
  IF paragraphs = <<>> THEN <<>>
  ELSE ParagraphBreaks(Head(paragraphs)) \o find_paragraph_soft_page_breaks(Tail(paragraphs))

\* the search starts at the beginning of the markdown, not at the cursor
MarkerIndexFromStart(markdown_text, following_text, current_position) ==
  Find(markdown_text, following_text, 0)

\* markdown_text.find(following_text, current_position)
MarkerIndex(markdown_text, following_text, current_position) ==
  Find(markdown_text, following_text, current_position)

\* the cursor is moved past the marker
SplitStepPastMarker(st, markdown_text, following_text) ==
  LET end_index == MarkerIndex(markdown_text, following_text, st.current_position)
  IN IF end_index = -1 THEN st
     ELSE [pages |-> Append(st.pages,
                            PageInfo(st.page_number,
                                     Slice(markdown_text, st.current_position, end_index))),
           current_position |-> end_index + Len(following_text),
           page_number |-> st.page_number + 1]

\* a marker that is not found still takes a page number
SplitStepCountsSkipped(st, markdown_text, following_text) ==
  LET end_index == MarkerIndex(markdown_text, following_text, st.current_position)
  IN IF end_index = -1 THEN [st EXCEPT !.page_number = st.page_number + 1]
     ELSE [pages |-> Append(st.pages,
                            PageInfo(st.page_number,
                                     Slice(markdown_text, st.current_position, end_index))),
           current_position |-> end_index,
           page_number |-> st.page_number + 1]

\* one iteration of the loop over following_texts
SplitStep(st, markdown_text, following_text) ==
  LET end_index == MarkerIndex(markdown_text, following_text, st.current_position)
  IN IF end_index = -1 THEN st
     ELSE [pages |-> Append(st.pages,
                            PageInfo(st.page_number,
                                     Slice(markdown_text, st.current_position, end_index))),
           current_position |-> end_index,
           page_number |-> st.page_number + 1]

\* the remainder is emitted even when it is empty
SplitRemainderAlways(st, markdown_text) ==
  Append(st.pages, PageInfo(st.page_number, SliceFrom(markdown_text, st.current_position)))

\* the page after the last marker
SplitRemainder(st, markdown_text) ==
  IF st.current_position < Len(markdown_text)
  THEN Append(st.pages, PageInfo(st.page_number, SliceFrom(markdown_text, st.current_position)))
  ELSE st.pages

RECURSIVE SplitLoop(_, _, _)
SplitLoop(st, markdown_text, following_texts) ==
  IF following_texts = <<>> THEN st
  ELSE SplitLoop(SplitStep(st, markdown_text, Head(following_texts)),
                 markdown_text, Tail(following_texts))

split_markdown_by_following_text(markdown_text, following_texts) ==
  SplitRemainder(SplitLoop([pages |-> <<>>, current_position |-> 0, page_number |-> 1],
                           markdown_text, following_texts),
                 markdown_text)

(* -------------------------- PDF page extraction ------------------------ *)

\* pdfminer.high_level.extract_text: one text device over all pages, so the
\* texts of the pages one after the other
extract_text(page_texts) == Concat(page_texts)

\* PageInfo(page_number=page_num, content=text.strip())
PageRecord(page_num, text) == PageInfo(page_num, Strip(text))

\* the fallback page is added to the partial page records
FallbackKeepsPartial(partial, full_text) ==
  Append(partial, PageInfo(Len(partial) + 1, Strip(full_text)))

\* pages = [PageInfo(page_number=1, content=full_text.strip())]
FallbackPages(partial, full_text) == <<PageInfo(1, Strip(full_text))>>

\* "\n\n".join([page.content for page in pages])
JoinPages(pgs) == Join(BlankLine, [i \in 1..Len(pgs) |-> pgs[i].content])

(* ------------------------------- inputs -------------------------------- *)

Positions == 0..StreamLen

\* "a" and "b"
MarkdownChars == {97, 98}

\* "a" and form feed
PageChars == {97, 12}

\* the values the callers pass for extract_pages, and the legacy return_pages
KwargsSet ==
  {<<>>} \cup
  {[k \in {"extract_pages"} |-> v] : v \in {PyFalse, PyNone, PyInt(0), PyTrue, PyInt(1)}} \cup
  {[k \in {"return_pages"} |-> PyTrue]}

\* a rendered page break: its following paragraph fragment, None or Some(text),
\* the text being "" or "a"
Fragments == {None, Some(<<>>), Some(<<97>>)}

\* a paragraph: its rendered page breaks
ParagraphSet == SeqUpTo(Fragments, MaxBreaks)

Titles == {None, Some(<<84>>)}

NoDoc ==
  [markdown |-> <<>>, title |-> None, paragraphs |-> <<>>, texts |-> <<>>,
   page_texts |-> <<>>, page_error |-> -1, extract_error |-> FALSE]

\* a DOCX document: what the renderer makes of it; its paragraphs are drawn
\* when docx.Document reads them
DocxDocs ==
  {[NoDoc EXCEPT !.markdown = m, !.title = t] :
     m \in SeqUpTo(MarkdownChars, MaxLen), t \in Titles}

\* a PDF document: the text the device produces for each page; page_error is
\* -1 (none), 0 (PDFPage.get_pages raises) or k (process_page raises on page
\* k); extract_error: the whole-document extract_text raises
PdfDocs ==
  {[NoDoc EXCEPT !.page_texts = pt, !.page_error = e, !.extract_error = x] :
     pt \in SeqUpTo(SeqUpTo(PageChars, MaxPageLen), MaxPages),
     e \in -1..MaxPages, x \in BOOLEAN}

DocsOf(c) ==
  IF c = "DocxConverter" THEN DocxDocs
  ELSE {d \in PdfDocs : d.page_error <= Len(d.page_texts)}

\* the texts of the paragraphs of the two-break scenario: short ones, and two
\* of 21 characters that begin with the same 20
ParagraphTexts ==
  SeqUpTo(MarkdownChars, MaxParaLen) \cup
  {Rep(97, number_of_chracters_delimeter) \o <<c>> : c \in MarkdownChars}

\* the renderer on plain paragraphs: their texts separated by blank lines
RenderParagraphs(texts) == Join(BlankLine, texts)

\* [P0, P1, <break>, P2, <break>, P3]
ScenarioDocs ==
  {[NoDoc EXCEPT !.texts = ts, !.markdown = RenderParagraphs(ts)] :
     ts \in [1..4 -> ParagraphTexts]}

\* what docx.Document can find in the stream of d: in the scenario paragraphs
\* 3 and 4 begin with a rendered page break whose following fragment is the
\* paragraph's text; otherwise any paragraphs with any breaks
ParagraphsOf(d) ==
  IF d.texts # <<>>
  THEN {<< <<>>, <<>>, <<Some(d.texts[3])>>, <<Some(d.texts[4])>> >>}
  ELSE SeqUpTo(ParagraphSet, MaxParas)

Extensions ==
  {None, Some(<<46, 100, 111, 99, 120>>), Some(<<46, 68, 79, 67, 88>>),
   Some(<<46, 112, 100, 102>>), Some(<<46, 120, 121, 122>>)}

\* None, the DOCX type, "Application/PDF", "application/x-pdf;a", "text/plain"
Mimetypes ==
  {None, Some(DOCX_MIME_TYPE_PREFIXES[1]),
   Some(<<65, 112, 112, 108, 105, 99, 97, 116, 105, 111, 110, 47, 80, 68, 70>>),
   Some(PDF_MIME_TYPE_PREFIXES[2] \o <<59, 97>>),
   Some(<<116, 101, 120, 116, 47, 112, 108, 97, 105, 110>>)}

StreamInfos == {[mimetype |-> m, extension |-> e] : m \in Mimetypes, e \in Extensions}

(* -------------------------------- state -------------------------------- *)

VARIABLES
  converter,            \* the converter the call is made on
  dependency_exc_info,  \* None, or Some(the import failure) kept at load time
  pc,                   \* position of the call
  accepted,             \* None, or Some(what accepts returned)
  kwargs,               \* options of the convert call
  doc,                  \* what the call has read of the document in the stream
  file_stream,          \* position of the caller's stream
  pre_process_stream,   \* position of the pre-processed DOCX stream, -1: none
  ops,                  \* the seeks and read passes of the call, in order
  extract_pages,        \* kwargs.get("extract_pages", False)
  rendered,             \* None, or Some(result of the HTML converter)
  soft_page_breaks,     \* the markers
  pages,                \* the page records
  page_num,             \* loop index of _extract_pages
  open,                 \* the per-page resources that are open
  pending,              \* an exception is in flight inside _extract_pages
  failed,               \* the except clause of _extract_pages was entered
  result,               \* None, or Some(DocumentConverterResult)
  raised                \* None, or Some(exception that reached the caller)

vars ==
  <<converter, dependency_exc_info, pc, accepted, kwargs, doc, file_stream,
    pre_process_stream, ops, extract_pages, rendered, soft_page_breaks, pages,
    page_num, open, pending, failed, result, raised>>

Seek(stream) == [op |-> "seek", stream |-> stream, pass |-> "seek(0)"]
Read(stream, pass) == [op |-> "read", stream |-> stream, pass |-> pass]

\* the read passes made by the code of the two converters
ConverterPasses == {"render", "markers", "extract_text", "get_pages", "fallback"}

Init ==
  /\ converter \in Converters
  /\ dependency_exc_info \in {None, Some("ImportError")}
  /\ pc = "idle"
  /\ accepted = None
  /\ kwargs = <<>>
  /\ doc = NoDoc
  /\ file_stream \in Positions
  /\ pre_process_stream = -1
  /\ ops = <<>>
  /\ extract_pages = PyFalse
  /\ rendered = None
  /\ soft_page_breaks = <<>>
  /\ pages = <<>>
  /\ page_num = 0
  /\ open = {}
  /\ pending = FALSE
  /\ failed = FALSE
  /\ result = None
  /\ raised = None

(* ------------------------------- accepts ------------------------------- *)

Accepts ==
  /\ pc = "idle"
  /\ \E stream_info \in StreamInfos :
       accepted' = Some([stream_info |-> stream_info,
                         value |-> accepts(converter, stream_info)])
  /\ pc' = "accepted"
  /\ UNCHANGED <<converter, dependency_exc_info, kwargs, doc, file_stream,
                 pre_process_stream, ops, extract_pages, rendered,
                 soft_page_breaks, pages, page_num, open, pending, failed,
                 result, raised>>

(* ------------------------- convert: both converters -------------------- *)

\* the dependency check and the reading of the options, for a call with
\* options from KW on a stream holding a document from Docs
ConvertWith(KW, Docs) ==
  /\ pc = "idle"
  /\ \E kw \in KW :
       /\ kwargs' = kw
       /\ IF DependencyMissing(dependency_exc_info)
          THEN /\ raised' = Some(MissingDependencyException(converter, dependency_exc_info[1]))
               /\ pc' = "raised"
               /\ UNCHANGED <<extract_pages, doc>>
          ELSE /\ \E d \in Docs : doc' = d
               /\ extract_pages' = KwGet(kw, "extract_pages", PyFalse)
               /\ raised' = None
               /\ pc' = IF converter = "DocxConverter" THEN "docx_pre_process"
                        ELSE IF Truthy(KwGet(kw, "extract_pages", PyFalse))
                             THEN "pdf_seek" ELSE "pdf_extract_text"
  /\ UNCHANGED <<converter, dependency_exc_info, accepted, file_stream,
                 pre_process_stream, ops, rendered, soft_page_breaks, pages,
                 page_num, open, pending, failed, result>>

Convert == ConvertWith(KwargsSet, DocsOf(converter))

(* --------------------------- convert: DOCX ----------------------------- *)

\* pre_process_docx(file_stream): reads the caller's stream to its end and
\* returns a new stream positioned at its start
DocxPreProcess ==
  /\ pc = "docx_pre_process"
  /\ ops' = Append(ops, Read("file_stream", "pre_process"))
  /\ file_stream' = StreamLen
  /\ pre_process_stream' = 0
  /\ pc' = IF Truthy(extract_pages) THEN "docx_render_paged" ELSE "docx_render_plain"
  /\ UNCHANGED <<converter, dependency_exc_info, accepted, kwargs, doc,
                 extract_pages, rendered, soft_page_breaks, pages, page_num,
                 open, pending, failed, result, raised>>

\* mammoth.convert_to_html, then the HTML converter: a read pass over the
\* pre-processed stream, which leaves it at its end
Render(d) == [markdown |-> d.markdown, title |-> d.title]

DocxRenderPaged ==
  /\ pc = "docx_render_paged"
  /\ ops' = Append(ops, Read("pre_process_stream", "render"))
  /\ rendered' = Some(Render(doc))
  /\ pre_process_stream' = StreamLen
  /\ pc' = "docx_find_breaks"
  /\ UNCHANGED <<converter, dependency_exc_info, accepted, kwargs, doc,
                 file_stream, extract_pages, soft_page_breaks, pages, page_num,
                 open, pending, failed, result, raised>>

\* docx.Document(doc_stream) on the same stream, then the walk of its paragraphs
DocxFindBreaks ==
  /\ pc = "docx_find_breaks"
  /\ ops' = Append(ops, Read("pre_process_stream", "markers"))
  /\ \E paragraphs \in ParagraphsOf(doc) :
       /\ doc' = [doc EXCEPT !.paragraphs = paragraphs]
       /\ soft_page_breaks' = find_paragraph_soft_page_breaks(paragraphs)
  /\ pre_process_stream' = StreamLen
  /\ pc' = "docx_split"
  /\ UNCHANGED <<converter, dependency_exc_info, accepted, kwargs,
                 file_stream, extract_pages, rendered, pages, page_num, open,
                 pending, failed, result, raised>>

DocxSplit ==
  /\ pc = "docx_split"
  /\ pages' = split_markdown_by_following_text(rendered[1].markdown, soft_page_breaks)
  /\ pc' = "docx_return"
  /\ UNCHANGED <<converter, dependency_exc_info, accepted, kwargs, doc,
                 file_stream, pre_process_stream, ops, extract_pages, rendered,
                 soft_page_breaks, page_num, open, pending, failed, result, raised>>

DocxReturnPaged ==
  /\ pc = "docx_return"
  /\ result' = Some([markdown |-> rendered[1].markdown,
                     title |-> rendered[1].title,
                     pages |-> Some(pages)])
  /\ pc' = "returned"
  /\ UNCHANGED <<converter, dependency_exc_info, accepted, kwargs, doc,
                 file_stream, pre_process_stream, ops, extract_pages, rendered,
                 soft_page_breaks, pages, page_num, open, pending, failed, raised>>

\* the branch without page extraction: render and return
DocxRenderPlain ==
  /\ pc = "docx_render_plain"
  /\ ops' = Append(ops, Read("pre_process_stream", "render"))
  /\ rendered' = Some(Render(doc))
  /\ pre_process_stream' = StreamLen
  /\ result' = Some([markdown |-> Render(doc).markdown, title |-> Render(doc).title,
                     pages |-> None])
  /\ pc' = "returned"
  /\ UNCHANGED <<converter, dependency_exc_info, accepted, kwargs, doc,
                 file_stream, extract_pages, soft_page_breaks, pages, page_num,
                 open, pending, failed, raised>>

(* ---------------------------- convert: PDF ----------------------------- *)

\* the branch without page extraction: extract_text(file_stream) from the
\* position the caller left the stream at
PdfExtractText ==
  /\ pc = "pdf_extract_text"
  /\ ops' = Append(ops, Read("file_stream", "extract_text"))
  /\ file_stream' = StreamLen
  /\ IF doc.extract_error
     THEN /\ raised' = Some([type |-> "ExtractionError"])
          /\ pc' = "raised"
          /\ UNCHANGED result
     ELSE /\ result' = Some([markdown |-> extract_text(doc.page_texts),
                             title |-> None, pages |-> None])
          /\ pc' = "returned"
          /\ UNCHANGED raised
  /\ UNCHANGED <<converter, dependency_exc_info, accepted, kwargs, doc,
                 pre_process_stream, extract_pages, rendered, soft_page_breaks,
                 pages, page_num, open, pending, failed>>

\* _extract_pages: pages = [] and file_stream.seek(0)
PdfSeek ==
  /\ pc = "pdf_seek"
  /\ pages' = <<>>
  /\ file_stream' = 0
  /\ ops' = Append(ops, Seek("file_stream"))
  /\ pc' = "pdf_get_pages"
  /\ UNCHANGED <<converter, dependency_exc_info, accepted, kwargs, doc,
                 pre_process_stream, extract_pages, rendered, soft_page_breaks,
                 page_num, open, pending, failed, result, raised>>

\* list(PDFPage.get_pages(file_stream)), the start of the pass over the pages
PdfGetPages ==
  /\ pc = "pdf_get_pages"
  /\ ops' = Append(ops, Read("file_stream", "get_pages"))
  /\ file_stream' = StreamLen
  /\ IF doc.page_error = 0
     THEN /\ pc' = "pdf_except"
          /\ UNCHANGED page_num
     ELSE IF doc.page_texts = <<>>
     THEN /\ pc' = "pdf_join"
          /\ UNCHANGED page_num
     ELSE /\ pc' = "pdf_open_page"
          /\ page_num' = 1
  /\ UNCHANGED <<converter, dependency_exc_info, accepted, kwargs, doc,
                 pre_process_stream, extract_pages, rendered, soft_page_breaks,
                 pages, open, pending, failed, result, raised>>

\* output_string = io.StringIO(); device = TextConverter(...)
PdfOpenPage ==
  /\ pc = "pdf_open_page"
  /\ open' = {"output_string", "device"}
  /\ pc' = "pdf_process_page"
  /\ UNCHANGED <<converter, dependency_exc_info, accepted, kwargs, doc,
                 file_stream, pre_process_stream, ops, extract_pages, rendered,
                 soft_page_breaks, pages, page_num, pending, failed, result, raised>>

\* interpreter.process_page(page) and the append of the page record
PdfProcessPage ==
  /\ pc = "pdf_process_page"
  /\ IF doc.page_error = page_num
     THEN /\ pending' = TRUE
          /\ UNCHANGED pages
     ELSE /\ pages' = Append(pages, PageRecord(page_num, doc.page_texts[page_num]))
          /\ UNCHANGED pending
  /\ pc' = "pdf_finally"
  /\ UNCHANGED <<converter, dependency_exc_info, accepted, kwargs, doc,
                 file_stream, pre_process_stream, ops, extract_pages, rendered,
                 soft_page_breaks, page_num, open, failed, result, raised>>

\* the finally clause: device.close(), output_string.close()
StillOpen(is_pending, opened) == {}

PdfFinally ==
  /\ pc = "pdf_finally"
  /\ open' = StillOpen(pending, open)
  /\ IF pending
     THEN /\ pc' = "pdf_except"
          /\ UNCHANGED page_num
     ELSE IF page_num < Len(doc.page_texts)
     THEN /\ pc' = "pdf_open_page"
          /\ page_num' = page_num + 1
     ELSE /\ pc' = "pdf_join"
          /\ UNCHANGED page_num
  /\ UNCHANGED <<converter, dependency_exc_info, accepted, kwargs, doc,
                 file_stream, pre_process_stream, ops, extract_pages, rendered,
                 soft_page_breaks, pages, pending, failed, result, raised>>

\* except Exception: file_stream.seek(0)
PdfExcept ==
  /\ pc = "pdf_except"
  /\ pending' = FALSE
  /\ failed' = TRUE
  /\ file_stream' = 0
  /\ ops' = Append(ops, Seek("file_stream"))
  /\ pc' = "pdf_fallback"
  /\ UNCHANGED <<converter, dependency_exc_info, accepted, kwargs, doc,
                 pre_process_stream, extract_pages, rendered, soft_page_breaks,
                 pages, page_num, open, result, raised>>

\* full_text = extract_text(file_stream); pages = [PageInfo(1, full_text.strip())]
PdfFallback ==
  /\ pc = "pdf_fallback"
  /\ ops' = Append(ops, Read("file_stream", "fallback"))
  /\ file_stream' = StreamLen
  /\ IF doc.extract_error
     THEN /\ raised' = Some([type |-> "ExtractionError"])
          /\ pc' = "raised"
          /\ UNCHANGED pages
     ELSE /\ pages' = FallbackPages(pages, extract_text(doc.page_texts))
          /\ pc' = "pdf_join"
          /\ UNCHANGED raised
  /\ UNCHANGED <<converter, dependency_exc_info, accepted, kwargs, doc,
                 pre_process_stream, extract_pages, rendered, soft_page_breaks,
                 page_num, open, pending, failed, result>>

\* convert: the markdown is the join of the page contents
PdfJoin ==
  /\ pc = "pdf_join"
  /\ result' = Some([markdown |-> JoinPages(pages), title |-> None, pages |-> Some(pages)])
  /\ pc' = "returned"
  /\ UNCHANGED <<converter, dependency_exc_info, accepted, kwargs, doc,
                 file_stream, pre_process_stream, ops, extract_pages, rendered,
                 soft_page_breaks, pages, page_num, open, pending, failed, raised>>

Next ==
  \/ Accepts
  \/ Convert
  \/ DocxPreProcess
  \/ DocxRenderPaged
  \/ DocxFindBreaks
  \/ DocxSplit
  \/ DocxReturnPaged
  \/ DocxRenderPlain
  \/ PdfExtractText
  \/ PdfSeek
  \/ PdfGetPages
  \/ PdfOpenPage
  \/ PdfProcessPage
  \/ PdfFinally
  \/ PdfExcept
  \/ PdfFallback
  \/ PdfJoin

Spec == Init /\ [][Next]_vars

(* ---------------- the two-break scenario as a specification ------------ *)

InitScenario ==
  /\ Init
  /\ converter = "DocxConverter"
  /\ dependency_exc_info = None

ConvertScenario == ConvertWith({[k \in {"extract_pages"} |-> PyTrue]}, ScenarioDocs)

NextScenario ==
  \/ ConvertScenario
  \/ DocxPreProcess
  \/ DocxRenderPaged
  \/ DocxFindBreaks
  \/ DocxSplit
  \/ DocxReturnPaged

SpecScenario == InitScenario /\ [][NextScenario]_vars

(* ------------------------------ properties ----------------------------- *)

Contents(pgs) == [i \in 1..Len(pgs) |-> pgs[i].content]

\* the DOCX marker walk has run
Walked == converter = "DocxConverter" /\ pc \in {"docx_return", "returned"} /\ Truthy(extract_pages)

\* a marker that the walk did not find: it occurs nowhere in the markdown
Skipped(marker) == Find(rendered[1].markdown, marker, 0) = -1

Numbered(pgs) == \A i \in 1..Len(pgs) : pgs[i].page_number = i

\* C1: the contents of the page records of the DOCX marker walk, concatenated
\* in list order, are the markdown, whatever the markdown and the markers
C1_Concatenation ==
  Walked => /\ Concat(Contents(pages)) = rendered[1].markdown
            /\ pc = "returned" => Concat(Contents(result[1].pages[1])) = result[1].markdown

\* a walk with the same non-empty marker twice: three pages, the second empty
C1_Witness ==
  /\ Walked
  /\ pc = "returned"
  /\ Len(pages) = 3
  /\ soft_page_breaks[1] = soft_page_breaks[2]
  /\ soft_page_breaks[1] # <<>>
  /\ pages[1].content # <<>>
  /\ pages[2].content = <<>>

\* C2: the page numbers of every page sequence, partial or returned, are
\* 1, 2, ..., N in list order
C2_SequentialNumbering ==
  /\ Numbered(pages)
  /\ (pc = "returned" /\ result[1].pages # None) => Numbered(result[1].pages[1])

\* a walk whose first marker is skipped and whose second is found
C2_Witness ==
  /\ Walked
  /\ pc = "returned"
  /\ Len(soft_page_breaks) = 2
  /\ Skipped(soft_page_breaks[1])
  /\ ~Skipped(soft_page_breaks[2])
  /\ Len(result[1].pages[1]) = 2

\* the markdown and title the call without page extraction returns for doc
PlainResult ==
  IF converter = "DocxConverter" THEN Render(doc)
  ELSE [markdown |-> extract_text(doc.page_texts), title |-> None]

\* C3: a call with page extraction returns the markdown and the title that
\* the call without page extraction returns for the same document
C3_SameMarkdown ==
  (pc = "returned" /\ Truthy(extract_pages))
    => /\ result[1].markdown = PlainResult.markdown
       /\ result[1].title = PlainResult.title

\* C4: a call with return_pages=True and no extract_pages returns pages
C4_LegacyAlias ==
  (pc = "returned" /\ DOMAIN kwargs = {"return_pages"} /\ Truthy(kwargs["return_pages"]))
    => result[1].pages # None

\* C5: extract_pages absent, False, None or 0 gives pages = None;
\* extract_pages True or 1 gives a list of pages
C5_Truthiness ==
  pc = "returned" =>
    /\ ("extract_pages" \notin DOMAIN kwargs) => result[1].pages = None
    /\ ("extract_pages" \in DOMAIN kwargs /\ kwargs["extract_pages"] \in {PyFalse, PyNone, PyInt(0)})
         => result[1].pages = None
    /\ ("extract_pages" \in DOMAIN kwargs /\ kwargs["extract_pages"] \in {PyTrue, PyInt(1)})
         => result[1].pages # None

\* extract_pages=1 on a PDF whose second page fails: the pages of the fallback
C5_Witness ==
  /\ pc = "returned"
  /\ kwargs = [k \in {"extract_pages"} |-> PyInt(1)]
  /\ failed
  /\ result[1].pages # None

\* C6: with the dependency missing, accepts answers as usual and every convert
\* call raises MissingDependencyException (converter, extension, feature, the
\* import failure as cause) with no seek, no read pass and no result; with the
\* dependency loaded convert never raises it
C6_DependencyDeferral ==
  /\ (dependency_exc_info # None /\ pc = "accepted") =>
       /\ raised = None
       /\ (\E i \in 1..Len(ACCEPTED_FILE_EXTENSIONS(converter)) :
             Lower(OrEmpty(accepted[1].stream_info.extension)) = ACCEPTED_FILE_EXTENSIONS(converter)[i])
            => accepted[1].value = TRUE
       /\ (accepted[1].stream_info.extension \in {None, Some(<<46, 120, 121, 122>>)}
           /\ accepted[1].stream_info.mimetype \in {None, Some(<<116, 101, 120, 116, 47, 112, 108, 97, 105, 110>>)})
            => accepted[1].value = FALSE
  /\ (dependency_exc_info # None /\ pc \notin {"idle", "accepted"}) =>
       /\ pc = "raised"
       /\ raised = Some([type |-> "MissingDependencyException",
                         converter |-> converter,
                         extension |-> IF converter = "DocxConverter" THEN ".docx" ELSE ".pdf",
                         feature |-> IF converter = "DocxConverter" THEN "docx" ELSE "pdf",
                         cause |-> "ImportError"])
       /\ ops = <<>>
       /\ pre_process_stream = -1
       /\ result = None
  /\ (dependency_exc_info = None /\ raised # None) =>
       raised[1].type # "MissingDependencyException"

\* a convert call with extract_pages=True on a converter without its dependency
C6_Witness ==
  /\ dependency_exc_info # None
  /\ pc = "raised"
  /\ kwargs = [k \in {"extract_pages"} |-> PyTrue]
  /\ raised[1].type = "MissingDependencyException"

\* no marker of the walk occurs in the markdown
NoMarkerOccurs == \A i \in 1..Len(soft_page_breaks) : Skipped(soft_page_breaks[i])

\* C7 as stated: without markers, or with markers that do not occur, the
\* walk yields one page, numbered 1, holding the markdown, for every markdown
C7_SinglePage ==
  (Walked /\ NoMarkerOccurs) => pages = <<PageInfo(1, rendered[1].markdown)>>

\* C7 amended: one page, numbered 1, holding the markdown when the markdown
\* is not empty; no page at all when it is empty
C7_SinglePageNonEmpty ==
  (Walked /\ NoMarkerOccurs) =>
    IF rendered[1].markdown # <<>>
    THEN pages = <<PageInfo(1, rendered[1].markdown)>>
    ELSE pages = <<>>

\* a walk over a non-empty markdown whose only marker is the sentinel
C7_Witness ==
  /\ Walked
  /\ soft_page_breaks = <<no_text_delimeter>>
  /\ rendered[1].markdown # <<>>
  /\ Len(pages) = 1

\* the two-break scenario: where the renderings of P2 and P3 start
StartP2 == Len(doc.texts[1]) + Len(doc.texts[2]) + 2 * Len(BlankLine)
StartP3 == StartP2 + Len(doc.texts[3]) + Len(BlankLine)

ScenarioWalked == Walked /\ Len(doc.texts) = 4

\* the pages the scenario names
ScenarioPages ==
  <<PageInfo(1, Slice(doc.markdown, 0, StartP2)),
    PageInfo(2, Slice(doc.markdown, StartP2, StartP3)),
    PageInfo(3, SliceFrom(doc.markdown, StartP3))>>

\* C8 as stated: the walk emits the renderings of P0-P1, of P2 and of P3, for
\* all paragraph texts
C8_ScenarioPages == ScenarioWalked => pages = ScenarioPages

\* C8 amended: three pages whose concatenation is the markdown, page 1 ending
\* no later than P2's rendering starts and page 3 starting no later than P3's;
\* they are the renderings of P0-P1, P2 and P3 when marker 1 does not occur
\* before P2's rendering and marker 2 does not occur between it and P3's
C8_ScenarioFirstOccurrence ==
  ScenarioWalked =>
    /\ Len(pages) = 3
    /\ Concat(Contents(pages)) = doc.markdown
    /\ Len(pages[1].content) <= StartP2
    /\ Len(pages[3].content) >= Len(doc.markdown) - StartP3
    /\ (/\ Find(doc.markdown, soft_page_breaks[1], 0) = StartP2
        /\ Find(doc.markdown, soft_page_breaks[2], StartP2) = StartP3)
         => pages = ScenarioPages

\* P2 and P3 are different texts of 21 characters with the same first 20:
\* page 2 is empty and page 3 holds both
C8_Witness ==
  /\ ScenarioWalked
  /\ Len(doc.texts[3]) > number_of_chracters_delimeter
  /\ doc.texts[3] # doc.texts[4]
  /\ soft_page_breaks[1] = soft_page_breaks[2]
  /\ Len(soft_page_breaks[1]) = number_of_chracters_delimeter
  /\ pages[2].content = <<>>
  /\ Len(pages) = 3

\* C9: every read pass the converters make is preceded by a seek to the
\* start of the stream it reads
C9_ResetBeforeEachPass ==
  \A i \in 1..Len(ops) :
    (ops[i].op = "read" /\ ops[i].pass \in ConverterPasses)
      => (i > 1 /\ ops[i - 1] = Seek(ops[i].stream))

\* C10: after a failure in the pass over the pages the per-page resources
\* are closed before the fallback, the partial page records are dropped for
\* one page numbered 1 with the stripped whole-document text, and a failure
\* of the fallback extraction reaches the caller
C10_Fallback ==
  /\ pc \in {"pdf_except", "pdf_fallback"} => open = {}
  /\ (pc = "returned" /\ Truthy(extract_pages) /\ converter = "PdfConverter"
      /\ doc.page_error >= 0) => failed
  /\ (pc = "returned" /\ failed) =>
       result[1].pages = Some(<<PageInfo(1, Strip(Concat(doc.page_texts)))>>)
  /\ (failed /\ doc.extract_error /\ pc # "pdf_fallback") =>
       /\ pc = "raised"
       /\ raised = Some([type |-> "ExtractionError"])
       /\ result = None

\* page 2 failed after the record of page 1 was appended
C10_Witness ==
  /\ pc = "returned"
  /\ failed
  /\ doc.page_error = 2
  /\ Len(result[1].pages[1]) = 1
  /\ result[1].pages[1][1].content # <<>>

====
